---------------------------- MODULE Spec2Model ----------------------------
(***************************************************************************)
(* FKFTP: the virtual multi-directory filesystem (filesystem.py), the      *)
(* hashed authorizer (server.py) and the verifier generator                *)
(* (hash_password.py), as run on a POSIX host (os.sep = "/",               *)
(* os.path = posixpath).                                                   *)
(*                                                                         *)
(* STRINGS.  A path string is held as the sequence of the pieces that      *)
(* str.split("/") gives: "/d/x" is <<"", "d", "x">>, "/" is <<"", "">>,    *)
(* "" is <<"">>, "/d/" is <<"", "d", "">>, "d" is <<"d">>.  The mapping is *)
(* one to one, so equality, startswith(base + "/"), slicing off a prefix   *)
(* and lstrip("/") are computed exactly on it.                             *)
(***************************************************************************)
EXTENDS Integers, Sequences, FiniteSets, TLC

(***************************************************************************)
(* Bounds of the model.                                                    *)
(***************************************************************************)
\* The longest path string given to an operation, in split("/") pieces.
MaxSegs == 4

\* The longest path string given to chdir, in split("/") pieces.
MaxDirSegs == 3

\* The longest password, in characters.
MaxPwLen == 2

\* The length of a salt, in characters.
SaltLen == 1

\* The most per-directory overrides registered, over all users.
MaxOverrides == 2

\* The most servers the management console creates.
MaxStarts == 2

\* Longest path, in pieces, of the calls made while two sessions are open.
MaxFrameSegs == 2

\* The pieces real path strings are built from.
RealTok == {"", ".", "..", "d", "x"}

\* The pieces virtual path strings are built from; "d" and "D" differ by case
\* only.
FtpTok == {"", "..", "d", "D", "x"}

\* Every real path string of at most MaxSegs pieces.
RealPaths == UNION {[1..n -> RealTok] : n \in 1..MaxSegs}

\* Every virtual path string of at most MaxSegs pieces.
FtpPaths == UNION {[1..n -> FtpTok] : n \in 1..MaxSegs}

\* The real path strings chdir is called with.
DirPaths == UNION {[1..n -> RealTok] : n \in 1..MaxDirSegs}

(***************************************************************************)
(* String operations on the split form.                                    *)
(***************************************************************************)
Last(s) == s[Len(s)]

Front(s) == SubSeq(s, 1, Len(s) - 1)

\* str.startswith("/" * k)
StartsWithSlashes(p, k) == Len(p) > k /\ \A i \in 1..k : p[i] = ""

\* os.path.isabs (posixpath): the string starts with "/".
isabs(p) == StartsWithSlashes(p, 1)

\* path.startswith(base + os.sep)
StartsWithSep(path, base) ==
    /\ Len(path) > Len(base)
    /\ SubSeq(path, 1, Len(base)) = base

\* s.lstrip("/")
RECURSIVE lstrip_sep(_)
lstrip_sep(s) ==
    IF Len(s) > 1 /\ s[1] = "" THEN lstrip_sep(Tail(s)) ELSE s

\* str.lower() on one piece.
lower(t) == IF t = "D" THEN "d" ELSE t

\* os.path.normcase (posixpath): returns the path unchanged.
normcase(p) == p

\* The loop of posixpath.normpath over path.split("/").
RECURSIVE norm_comps(_, _, _)
norm_comps(comps, new_comps, initial_slashes) ==
    IF comps = <<>> THEN new_comps
    ELSE LET comp == Head(comps)
             rest == Tail(comps)
         IN  IF comp \in {"", "."}
             THEN norm_comps(rest, new_comps, initial_slashes)
             ELSE IF \/ comp # ".."
                     \/ (initial_slashes = 0 /\ new_comps = <<>>)
                     \/ (new_comps # <<>> /\ Last(new_comps) = "..")
             THEN norm_comps(rest, Append(new_comps, comp), initial_slashes)
             ELSE IF new_comps # <<>>
             THEN norm_comps(rest, Front(new_comps), initial_slashes)
             ELSE norm_comps(rest, new_comps, initial_slashes)

\* os.path.normpath (posixpath).
normpath(path) ==
    IF path = <<"">> THEN <<".">>
    ELSE LET initial_slashes ==
                 IF ~StartsWithSlashes(path, 1) THEN 0
                 ELSE IF StartsWithSlashes(path, 2) /\ ~StartsWithSlashes(path, 3)
                      THEN 2 ELSE 1
             comps  == norm_comps(path, <<>>, initial_slashes)
             joined == IF comps = <<>> THEN <<"">> ELSE comps
             res    == [i \in 1..initial_slashes |-> ""] \o joined
         IN  IF res = <<"">> THEN <<".">> ELSE res

\* os.path.join(a, b) (posixpath), two arguments.
join2(a, b) ==
    IF isabs(b) THEN b
    ELSE IF a = <<"">> THEN b
    ELSE IF Last(a) = "" THEN Front(a) \o b
    ELSE a \o b

\* os.path.join(base, *parts), each part one piece without "/".
RECURSIVE join(_, _)
join(base, parts) ==
    IF parts = <<>> THEN base
    ELSE join(join2(base, <<Head(parts)>>), Tail(parts))


(***************************************************************************)
(* Configuration documents the server is started with (server.py reads     *)
(* them with load_config).  directories is a JSON object: an ordered       *)
(* mapping, held as a sequence of <<mount_name, real_path>> pairs with     *)
(* distinct names.                                                         *)
(*   ConfigA: two mounts for u1; u2's only mount lies inside u1's "d".     *)
(*   ConfigB: u1's mount names differ by case only and one real path is    *)
(*            not normalized; u2 mounts the filesystem root.               *)
(***************************************************************************)
ConfigA ==
    [users |-> <<
        [username |-> "u1", password_hash |-> <<>>,
         permissions |-> <<"e", "l", "r">>,
         directories |-> << <<"d", <<"", "d">> >>, <<"x", <<"", "x">> >> >>],
        [username |-> "u2", password_hash |-> <<>>,
         permissions |-> <<"e", "l", "r", "d", "w">>,
         directories |-> << <<"x", <<"", "d", "x">> >> >>] >>]

ConfigB ==
    [users |-> <<
        [username |-> "u1", password_hash |-> <<>>,
         permissions |-> <<"e", "l", "r">>,
         directories |-> << <<"D", <<"", "d", ".">> >>, <<"d", <<"", "x">> >> >>],
        [username |-> "u2", password_hash |-> <<>>,
         permissions |-> <<"e", "l", "r", "d", "w">>,
         directories |-> << <<"d", <<"", "">> >> >>] >>]

Configs == {ConfigA, ConfigB}

\* ConfigC: mounts registered in an order that is not the sorted one.
ConfigC ==
    [users |-> <<
        [username |-> "u1", password_hash |-> <<>>,
         permissions |-> <<"e", "l", "r">>,
         directories |-> << <<"x", <<"", "x">> >>, <<"d", <<"", "d">> >>,
                            <<"D", <<"", "d", "x">> >> >>],
        [username |-> "u2", password_hash |-> <<>>,
         permissions |-> <<"e", "l", "r", "d", "w">>,
         directories |-> << <<"x", <<"", "x", "d">> >>,
                            <<"d", <<"", "d">> >> >>] >>]

\* The permission characters has_perm is asked about.
PermChars == {"r", "w"}

\* Connection handlers of the engine.
SessionIds == {"s1"}

\* The state of a connection that has not logged in.
NoSession == [username |-> "", dir_map |-> <<>>, cwd |-> <<"", "">>, open |-> FALSE]

\* No call in progress.
NoCall == [op |-> "none"]

\* Python's None where a name is expected.
None == "<None>"

\* Python's None where a path string is expected.
NonePath == <<"<None>">>

\* The filesystem root, "/".
RootDir == <<"", "">>

VARIABLES
    USER_DIR_MAP,   \* filesystem.USER_DIR_MAP: username -> sequence of <<name, path>>
    user_table,     \* HashedAuthorizer.user_table: username -> user record
    sessions,       \* session id -> the MultiDirFilesystem of the connection
    disk,           \* the directories that exist, as normalized absolute paths
    last,           \* the call just made and its outcome, NoCall when idle
    config_file,    \* app.py: the document stored at CONFIG_PATH
    ftp_server,     \* app.py: _ftp_server, NoServer for None, else a server's number
    ftp_thread,     \* app.py: _ftp_thread, NoServer for None, else a thread's number
    ftp_lock,       \* app.py: _ftp_lock, the worker that holds it or Free
    listening,      \* the servers whose listening socket is bound and open
    alive,          \* the serve_forever threads that are alive
    started,        \* how many servers have been created
    workers         \* the web workers: the request each one is handling

\* The state of the management console (app.py).
console_vars ==
    <<config_file, ftp_server, ftp_thread, ftp_lock, listening, alive, started,
      workers>>

vars == <<USER_DIR_MAP, user_table, sessions, disk, last, console_vars>>

(***************************************************************************)
(* Ordered mappings.                                                       *)
(***************************************************************************)
\* dict.values()
Values(m) == {m[i][2] : i \in DOMAIN m}

\* dict.keys()
Keys(m) == {m[i][1] : i \in DOMAIN m}

\* name in dict
HasKey(m, name) == \E i \in DOMAIN m : m[i][1] = name

\* dict[name]
Lookup(m, name) == m[CHOOSE i \in DOMAIN m : m[i][1] = name][2]

\* perm in permission_string
InPerm(perm, str) == \E i \in DOMAIN str : str[i] = perm

(***************************************************************************)
(* MultiDirFilesystem (filesystem.py).  self is the session's record:      *)
(* username, dir_map (the mapping built by __init__) and cwd.              *)
(***************************************************************************)
\* USER_DIR_MAP.get(username, {})
registry_get(registry, username) ==
    IF username \in DOMAIN registry THEN registry[username] ELSE <<>>

\* __init__: the user's mapping with every real path normalized; cwd is "/".
MultiDirFilesystem(registry, username) ==
    LET m == registry_get(registry, username)
    IN  [username |-> username,
         dir_map  |-> [i \in DOMAIN m |-> <<m[i][1], normpath(m[i][2])>>],
         cwd      |-> RootDir,
         open     |-> TRUE]

\* ftpnorm without the normalization: "." and ".." pieces are kept.
ftpnorm_unresolved(self, ftppath) ==
    LET p == IF isabs(ftppath) THEN ftppath ELSE join2(self.cwd, ftppath)
        q == IF StartsWithSlashes(p, 2) THEN Tail(p) ELSE p
    IN  IF isabs(q) THEN q ELSE RootDir

\* AbstractedFS.ftpnorm, which MultiDirFilesystem inherits: the path is
\* normalized against cwd in the virtual namespace, leading "//" collapse,
\* and a result that is not absolute becomes "/".
ftpnorm(self, ftppath) ==
    LET p == IF isabs(ftppath) THEN normpath(ftppath)
             ELSE normpath(join2(self.cwd, ftppath))
        q == IF StartsWithSlashes(p, 2) THEN Tail(p) ELSE p
    IN  IF isabs(q) THEN q ELSE RootDir

\* _find_mount, as names are compared with their case kept.
find_mount_exact(self, name) ==
    LET hits == {i \in DOMAIN self.dir_map : self.dir_map[i][1] = name}
    IN  IF hits = {} THEN None
        ELSE self.dir_map[CHOOSE i \in hits : \A j \in hits : i <= j][1]

\* _find_mount: the first mount name, in the mapping's order, equal to name
\* up to case, else None.
find_mount(self, name) ==
    LET hits == {i \in DOMAIN self.dir_map : lower(self.dir_map[i][1]) = lower(name)}
    IN  IF hits = {} THEN None
        ELSE self.dir_map[CHOOSE i \in hits : \A j \in hits : i <= j][1]

\* [p for p in normed.split("/") if p]
nonempty_parts(normed) == SelectSeq(normed, LAMBDA t : t # "")

\* _resolve: <<mount_name, relative_parts>>.
resolve(self, ftppath) ==
    LET parts == nonempty_parts(ftpnorm(self, ftppath))
    IN  IF parts = <<>> THEN <<None, <<>> >>
        ELSE LET mount_name == find_mount(self, parts[1])
             IN  IF mount_name = None THEN <<parts[1], Tail(parts)>>
                 ELSE <<mount_name, Tail(parts)>>

\* _to_absolute_ftppath
to_absolute_ftppath(self, ftppath) ==
    LET normed == ftpnorm(self, ftppath)
    IN  IF ~isabs(normed)
        THEN normpath(self.cwd \o normed)
        ELSE normed

\* ftp2fs answering an unknown mount name with the directory of that name under
\* the filesystem root instead of under "__invalid__".
ftp2fs_unknown_at_root(self, ftppath) ==
    LET abs    == to_absolute_ftppath(self, ftppath)
        normed == ftpnorm(self, abs)
    IN  IF normed = RootDir THEN normed
        ELSE LET r          == resolve(self, abs)
                 mount_name == r[1]
                 sub_parts  == r[2]
             IN  IF HasKey(self.dir_map, mount_name)
                 THEN LET real_base == Lookup(self.dir_map, mount_name)
                      IN  IF sub_parts # <<>>
                          THEN normpath(join(real_base, sub_parts))
                          ELSE real_base
                 ELSE normpath(join(RootDir, <<mount_name>>))

\* ftp2fs: virtual path -> real path.
ftp2fs(self, ftppath) ==
    LET abs    == to_absolute_ftppath(self, ftppath)
        normed == ftpnorm(self, abs)
    IN  IF normed = RootDir THEN normed
        ELSE LET r          == resolve(self, abs)
                 mount_name == r[1]
                 sub_parts  == r[2]
             IN  IF HasKey(self.dir_map, mount_name)
                 THEN LET real_base == Lookup(self.dir_map, mount_name)
                      IN  IF sub_parts # <<>>
                          THEN normpath(join(real_base, sub_parts))
                          ELSE real_base
                 ELSE normpath(join(<<"__invalid__">>, <<mount_name>>))

\* The loop of fs2ftp over the mapping, from entry i on.
RECURSIVE fs2ftp_from(_, _, _)
fs2ftp_from(self, fspath, i) ==
    IF i > Len(self.dir_map) THEN RootDir
    ELSE LET mount_name     == self.dir_map[i][1]
             real_base_norm == normpath(self.dir_map[i][2])
         IN  IF normcase(fspath) = normcase(real_base_norm)
             THEN <<"", mount_name>>
             ELSE IF StartsWithSep(normcase(fspath), normcase(real_base_norm))
             THEN LET rel == lstrip_sep(
                                <<"">> \o SubSeq(fspath, Len(real_base_norm) + 1,
                                                 Len(fspath)))
                  IN  <<"", mount_name>> \o rel
             ELSE fs2ftp_from(self, fspath, i + 1)

\* fs2ftp: real path -> virtual path.
fs2ftp(self, fspath) == fs2ftp_from(self, normpath(fspath), 1)

\* validpath
validpath(self, path) ==
    IF path = RootDir THEN TRUE
    ELSE LET np == normpath(path)
         IN  \E real_base \in Values(self.dir_map) :
                 LET rb == normpath(real_base)
                 IN  \/ normcase(np) = normcase(rb)
                     \/ StartsWithSep(normcase(np), normcase(rb))

\* _is_virtual_path
is_virtual_path(self, fspath) ==
    IF fspath = RootDir THEN TRUE
    ELSE \E real_base \in Values(self.dir_map) :
             normcase(normpath(fspath)) = normcase(normpath(real_base))

\* self.cwd = value, as cwd were one attribute shared by every session.
set_cwd_shared(all_sessions, s, value) ==
    [t \in DOMAIN all_sessions |->
        IF all_sessions[t].open THEN [all_sessions[t] EXCEPT !.cwd = value]
        ELSE all_sessions[t]]

\* self.cwd = value in the filesystem object of connection s.
set_cwd(all_sessions, s, value) == [all_sessions EXCEPT ![s].cwd = value]

\* chdir, as a path that maps into no mount is kept as the current
\* directory.
chdir_keeps_unmounted(self, path) ==
    IF path = RootDir \/ is_virtual_path(self, path)
    THEN (IF path # RootDir THEN fs2ftp(self, path) ELSE RootDir)
    ELSE IF fs2ftp(self, path) = RootDir THEN path ELSE fs2ftp(self, path)

\* chdir: the value cwd is set to.
chdir(self, path) ==
    IF path = RootDir \/ is_virtual_path(self, path)
    THEN (IF path # RootDir THEN fs2ftp(self, path) ELSE RootDir)
    ELSE fs2ftp(self, path)

\* rmdir's guard comparing the path as given, not normalized.
is_mount_root_as_given(self, path) ==
    \E real_base \in Values(self.dir_map) :
        normcase(path) = normcase(normpath(real_base))

\* rmdir's guard: the path is the root of one of the session's mounts.
is_mount_root(self, path) ==
    LET path_norm == normpath(path)
    IN  \E real_base \in Values(self.dir_map) :
            normcase(path_norm) = normcase(normpath(real_base))

\* ord(c) of the one-character mount names.
ord(name) ==
    CASE name = "D" -> 68
      [] name = "d" -> 100
      [] name = "x" -> 120

\* list(self._dir_map.keys()): the names in the mapping's order.
keys_list(m) == [i \in DOMAIN m |-> m[i][1]]

\* sorted(names), as the names are left in the order given.
sorted_as_given(names) == names

\* sorted(names) for names without repetition: by code point.
RECURSIVE sorted(_)
sorted(names) ==
    IF names = <<>> THEN <<>>
    ELSE LET rest  == sorted(Tail(names))
             lower_part == SelectSeq(rest, LAMBDA t : ord(t) < ord(Head(names)))
             upper_part == SelectSeq(rest, LAMBDA t : ord(t) >= ord(Head(names)))
         IN  lower_part \o <<Head(names)>> \o upper_part

(***************************************************************************)
(* The operating system's directory tree.  disk holds the directories that *)
(* exist; the root always does.  A directory is empty when no other        *)
(* directory of disk lies in it.                                           *)
(***************************************************************************)
IsPrefix(a, b) == Len(a) <= Len(b) /\ SubSeq(b, 1, Len(a)) = a

\* The kernel's walk of an absolute path from dir cur: "" and "." stay, ".."
\* goes to the parent, a name goes to the child; NonePath when a directory on
\* the way does not exist.
RECURSIVE os_walk(_, _, _)
os_walk(tree, cur, comps) ==
    IF cur \notin tree THEN NonePath
    ELSE IF comps = <<>> THEN cur
    ELSE LET c == Head(comps)
         IN  IF c \in {"", "."} THEN os_walk(tree, cur, Tail(comps))
             ELSE IF c = ".."
             THEN os_walk(tree, IF cur = RootDir THEN cur
                                ELSE IF Len(cur) = 2 THEN RootDir
                                ELSE Front(cur), Tail(comps))
             ELSE os_walk(tree, IF cur = RootDir THEN <<"", c>> ELSE Append(cur, c),
                          Tail(comps))

\* The last name of a path string, trailing separators dropped.
RECURSIVE last_name(_)
last_name(path) ==
    IF Len(path) > 1 /\ Last(path) = "" THEN last_name(Front(path)) ELSE Last(path)

\* os.rmdir(path): the directory removed, or NonePath when the call raises OSError
\* (path missing, not empty, the root, ending in "." or "..", or relative: the
\* process's working directory holds none of the directories of the model).
os_rmdir_target(tree, path) ==
    IF ~isabs(path) THEN NonePath
    ELSE LET t == os_walk(tree, RootDir, path)
         IN  IF t = NonePath \/ t = RootDir THEN NonePath
             ELSE IF last_name(path) \in {".", ".."} THEN NonePath
             ELSE IF \E o \in tree : o # t /\ IsPrefix(t, o) THEN NonePath
             ELSE t

\* os.listdir(path): the names of the directories in the directory, as a set,
\* or {None} when the call raises OSError (path missing or relative).
os_listdir_names(tree, path) ==
    IF ~isabs(path) THEN {None}
    ELSE LET t == os_walk(tree, RootDir, path)
         IN  IF t = NonePath THEN {None}
             ELSE IF t = RootDir
             THEN {o[2] : o \in {q \in tree : Len(q) = 2 /\ q # RootDir}}
             ELSE {o[Len(t) + 1] :
                      o \in {q \in tree : Len(q) = Len(t) + 1 /\ IsPrefix(t, q)}}

\* The orders a set of names can be listed in.
orderings(names) ==
    {f \in [1..Cardinality(names) -> names] :
        \A i, j \in 1..Cardinality(names) : i # j => f[i] # f[j]}

\* os.makedirs(path, exist_ok=True) for a normalized absolute path.
os_makedirs(tree, real_path) ==
    tree \cup {SubSeq(real_path, 1, k) : k \in 2..Len(real_path)}

(***************************************************************************)
(* HashedAuthorizer (server.py).                                           *)
(***************************************************************************)
\* add_user: the record stored for the user.
user_record(password_hash, homedir, perm) ==
    [pwd |-> password_hash, home |-> homedir, perm |-> perm, operms |-> <<>>]

\* The loop of has_perm over the per-directory overrides, as every override
\* governs the paths below its directory, marked recursive or not.
RECURSIVE operms_from_all_recursive(_, _, _, _)
operms_from_all_recursive(operms, perm, path, i) ==
    IF i > Len(operms) THEN <<FALSE, FALSE>>
    ELSE LET dir_  == operms[i][1]
             operm == operms[i][2]
         IN  IF path = dir_ \/ StartsWithSep(path, dir_)
             THEN <<TRUE, InPerm(perm, operm)>>
             ELSE operms_from_all_recursive(operms, perm, path, i + 1)

\* The loop of has_perm over the per-directory overrides, from entry i on:
\* <<TRUE, answer>> for the first override that governs path.
RECURSIVE operms_from(_, _, _, _)
operms_from(operms, perm, path, i) ==
    IF i > Len(operms) THEN <<FALSE, FALSE>>
    ELSE LET dir_      == operms[i][1]
             operm     == operms[i][2]
             recursive == operms[i][3]
         IN  IF path = dir_ \/ (recursive /\ StartsWithSep(path, dir_))
             THEN <<TRUE, InPerm(perm, operm)>>
             ELSE operms_from(operms, perm, path, i + 1)

\* has_perm(username, perm, path); path NonePath for the call without a path.
has_perm(table, registry, username, perm, path) ==
    IF path = NonePath THEN InPerm(perm, table[username].perm)
    ELSE IF path = RootDir THEN InPerm(perm, table[username].perm)
    ELSE LET p  == normcase(path)
             ov == operms_from(table[username].operms, perm, p, 1)
             dirs == registry_get(registry, username)
         IN  IF ov[1] THEN ov[2]
             ELSE IF \E real_base \in Values(dirs) :
                        LET base == normcase(normpath(real_base))
                        IN  p = base \/ StartsWithSep(p, base)
             THEN InPerm(perm, table[username].perm)
             ELSE FALSE

(***************************************************************************)
(* Per-directory overrides: HashedAuthorizer inherits override_perm from   *)
(* pyftpdlib's DummyAuthorizer, which fills the "operms" has_perm reads.   *)
(***************************************************************************)
\* s.rstrip("/")
RECURSIVE rstrip_sep(_)
rstrip_sep(s) ==
    IF Len(s) > 1 /\ Last(s) = "" THEN rstrip_sep(Front(s)) ELSE s

\* DummyAuthorizer._issubpath(a, b): the pieces of b, stripped of trailing
\* separators, begin the pieces of a.
issubpath(a, b) ==
    LET p1 == rstrip_sep(a)
        p2 == rstrip_sep(b)
    IN  Len(p1) >= Len(p2) /\ SubSeq(p1, 1, Len(p2)) = p2

\* operms[directory] = (perm, recursive): a key already present keeps its
\* place, a new key goes last.
operms_set(operms, directory, perm, recursive) ==
    IF \E i \in DOMAIN operms : operms[i][1] = directory
    THEN [i \in DOMAIN operms |->
             IF operms[i][1] = directory
             THEN <<directory, perm, recursive>> ELSE operms[i]]
    ELSE Append(operms, <<directory, perm, recursive>>)

\* The ValueError override_perm raises for an absolute directory, "" if none.
override_perm_error(table, tree, username, directory) ==
    LET real == normcase(normpath(directory))
        home == normcase(table[username].home)
    IN  IF normpath(directory) \notin tree THEN "ValueError: no such directory"
        ELSE IF real = home
        THEN "ValueError: can't override home directory permissions"
        ELSE IF ~issubpath(real, home)
        THEN "ValueError: path escapes user home directory"
        ELSE ""

(***************************************************************************)
(* Password verifiers (hash_password.py, server.py).  A string is the      *)
(* sequence of its characters.                                             *)
(***************************************************************************)
\* The characters a password is typed from.
PwChars == {"a", "$"}

\* The characters of os.urandom(16).hex().
HexChars == {"0", "f"}

\* The hexadecimal code of a character.
hex_of(c) ==
    CASE c = "a" -> <<"6", "1">>
      [] c = "$" -> <<"2", "4">>
      [] c = "0" -> <<"3", "0">>
      [] c = "f" -> <<"6", "6">>
      [] c = "z" -> <<"7", "a">>

\* hashlib.sha256(s.encode("utf-8")).hexdigest(), the hash taken as
\* collision-free: a string of hexadecimal digits that is different for
\* different s.
RECURSIVE sha256_hexdigest(_)
sha256_hexdigest(s) ==
    IF s = <<>> THEN <<>> ELSE hex_of(Head(s)) \o sha256_hexdigest(Tail(s))

\* hash_password(password) with salt the value os.urandom(16).hex() gave,
\* as the digest is computed without the salt.
hash_password_unsalted(password, salt) ==
    salt \o <<"$">> \o sha256_hexdigest(password)

\* hash_password(password) with salt the value os.urandom(16).hex() gave.
hash_password(password, salt) ==
    LET h == sha256_hexdigest(salt \o password)
    IN  salt \o <<"$">> \o h

\* c in s
contains(s, c) == \E i \in DOMAIN s : s[i] = c

\* s.split(c, 1) for s that contains c.
split1(s, c) ==
    LET k == CHOOSE i \in DOMAIN s :
                 s[i] = c /\ \A j \in 1..(i - 1) : s[j] # c
    IN  <<SubSeq(s, 1, k - 1), SubSeq(s, k + 1, Len(s))>>

\* The passwords typed, the salts drawn, and the names that log in.
Passwords == UNION {[1..n -> PwChars] : n \in 1..MaxPwLen}
Salts == [1..SaltLen -> HexChars]
LoginNames == {"u1", "u2"}

\* Verifiers written into the configuration by hand: none, and one without
\* the separator.
HandVerifiers == {<<>>, <<"z">>}

\* Every value password_hash takes.
Verifiers ==
    HandVerifiers \cup {hash_password(p, s) : p \in Passwords, s \in Salts}

\* add_user's default perm, "elr".
DefaultPerm == <<"e", "l", "r">>

\* The messages of AuthenticationFailed.
AuthenticationFailedMsg == "AuthenticationFailed: Authentication failed."
NotConfiguredMsg ==
    "AuthenticationFailed: Password not configured. Run hash_password.py first."
InvalidFormatMsg == "AuthenticationFailed: Invalid password hash format."

\* validate_authentication returned without raising.
Authenticated == "authenticated"

\* The checks of validate_authentication on the stored verifier, as an
\* empty verifier lets the login through.
check_stored_skips_empty(stored, password) ==
    IF stored = <<>> THEN Authenticated
    ELSE IF ~contains(stored, "$") THEN InvalidFormatMsg
    ELSE LET salt          == split1(stored, "$")[1]
             expected_hash == split1(stored, "$")[2]
             actual_hash   == sha256_hexdigest(salt \o password)
         IN  IF actual_hash # expected_hash THEN AuthenticationFailedMsg
             ELSE Authenticated

\* The checks of validate_authentication on the stored verifier.
check_stored(stored, password) ==
    IF stored = <<>> THEN NotConfiguredMsg
    ELSE IF ~contains(stored, "$") THEN InvalidFormatMsg
    ELSE LET salt          == split1(stored, "$")[1]
             expected_hash == split1(stored, "$")[2]
             actual_hash   == sha256_hexdigest(salt \o password)
         IN  IF actual_hash # expected_hash THEN AuthenticationFailedMsg
             ELSE Authenticated

\* validate_authentication, as an unknown user gets a message of its own.
validate_authentication_names_unknown(table, username, password) ==
    IF username \notin DOMAIN table
    THEN "AuthenticationFailed: No such user."
    ELSE check_stored(table[username].pwd, password)

\* validate_authentication(username, password, handler): Authenticated, or
\* the AuthenticationFailed it raises.
validate_authentication(table, username, password) ==
    IF username \notin DOMAIN table THEN AuthenticationFailedMsg
    ELSE check_stored(table[username].pwd, password)

(***************************************************************************)
(* Bootstrap (server.py, setup_server): the state a configuration leaves.  *)
(***************************************************************************)
\* The entries of config.users for username, in order.
entries_of(config, username) ==
    SelectSeq(config.users, LAMBDA c : c.username = username)

usernames_of(config) == {config.users[i].username : i \in DOMAIN config.users}

\* USER_DIR_MAP[username] = directories, for every user in order.
registry_of(config) ==
    [u \in usernames_of(config) |-> Last(entries_of(config, u)).directories]

\* home: the first mapped directory normalized, else normpath(".").
home_of(directories) ==
    IF directories # <<>> /\ directories[1][2] # <<"">>
    THEN normpath(directories[1][2])
    ELSE normpath(<<".">>)

\* authorizer.add_user(username, password_hash, home, perm=permissions) for
\* every user; the configurations of Configs name each user once.
table_of(config) ==
    [u \in usernames_of(config) |->
        LET c == entries_of(config, u)[1]
        IN  user_record(c.password_hash, home_of(c.directories), c.permissions)]

\* validate_directories: every mapped directory that is missing is created.
RECURSIVE validate_directories(_, _)
validate_directories(tree, dirs) ==
    IF dirs = <<>> THEN tree
    ELSE validate_directories(os_makedirs(tree, normpath(Head(dirs))), Tail(dirs))

\* Every real path of the configuration, user by user, mount by mount.
RECURSIVE all_directories(_)
all_directories(users) ==
    IF users = <<>> THEN <<>>
    ELSE [i \in DOMAIN Head(users).directories |-> Head(users).directories[i][2]]
         \o all_directories(Tail(users))

\* The web workers of the management console.
Workers == {"w1", "w2"}

\* _ftp_server / _ftp_thread = None.
NoServer == 0

\* _ftp_lock is not held.
Free == "free"

\* A worker that handles no request.
\* at_arrival notes whether the server thread was alive when the worker's
\* request arrived.
IdleWorker ==
    [pc |-> "idle", attempt |-> 0, binds |-> 0, last_err |-> "",
     config |-> [users |-> <<>>], at_arrival |-> FALSE,
     body |-> [users |-> <<>>]]

\* A configuration document without users (app.py, _DEFAULT_CONFIG).
NoUsersConfig == [users |-> <<>>]

\* The management console has started no server and handles no request;
\* CONFIG_PATH holds config.
ConsoleOff(config) ==
    /\ config_file = config
    /\ ftp_server = NoServer
    /\ ftp_thread = NoServer
    /\ ftp_lock = Free
    /\ listening = {}
    /\ alive = {}
    /\ started = 0
    /\ workers = [w \in Workers |-> IdleWorker]

(***************************************************************************)
(* The state after a command-line start with one of Configs.               *)
(***************************************************************************)
Init ==
    \E config \in Configs :
        /\ USER_DIR_MAP = registry_of(config)
        /\ user_table = table_of(config)
        /\ disk = validate_directories({RootDir}, all_directories(config.users))
        /\ sessions = [s \in SessionIds |-> NoSession]
        /\ last = NoCall
        /\ ConsoleOff(config)

Idle == last = NoCall

\* A user logs in on connection s: the engine builds its MultiDirFilesystem.
Connect(s, u) ==
    /\ Idle
    /\ ~sessions[s].open
    /\ sessions' = [sessions EXCEPT ![s] = MultiDirFilesystem(USER_DIR_MAP, u)]
    /\ last' = [op |-> "connect", s |-> s]
    /\ UNCHANGED <<USER_DIR_MAP, user_table, disk, console_vars>>

\* fs.chdir(path)
ChDir(s, path) ==
    /\ Idle
    /\ sessions[s].open
    /\ sessions' = set_cwd(sessions, s, chdir(sessions[s], path))
    /\ last' = [op |-> "chdir", s |-> s, arg |-> path]
    /\ UNCHANGED <<USER_DIR_MAP, user_table, disk, console_vars>>

\* fs.ftp2fs(ftppath)
Ftp2fs(s, ftppath) ==
    /\ Idle
    /\ sessions[s].open
    /\ last' = [op |-> "ftp2fs", s |-> s, arg |-> ftppath,
                result |-> ftp2fs(sessions[s], ftppath)]
    /\ UNCHANGED <<USER_DIR_MAP, user_table, sessions, disk, console_vars>>

\* The error rmdir raises for a mount root.
MountPointError == "FilesystemError: Cannot remove a mount point."

\* fs.rmdir(path): FilesystemError for a mount root, else os.rmdir(path).
Rmdir(s, path) ==
    /\ Idle
    /\ sessions[s].open
    /\ IF is_mount_root(sessions[s], path)
       THEN /\ last' = [op |-> "rmdir", s |-> s, arg |-> path,
                        raised |-> MountPointError,
                        os_arg |-> NonePath]
            /\ disk' = disk
       ELSE LET t == os_rmdir_target(disk, path)
            IN  /\ last' = [op |-> "rmdir", s |-> s, arg |-> path,
                            raised |-> IF t = NonePath THEN "OSError" ELSE "",
                            os_arg |-> path]
                /\ disk' = IF t = NonePath THEN disk ELSE disk \ {t}
    /\ UNCHANGED <<USER_DIR_MAP, user_table, sessions, console_vars>>

\* The reply is sent; the handler is idle again.
Return ==
    /\ ~Idle
    /\ last' = NoCall
    /\ UNCHANGED <<USER_DIR_MAP, user_table, sessions, disk, console_vars>>

\* fs.fs2ftp(fspath)
Fs2ftp(s, fspath) ==
    /\ Idle
    /\ sessions[s].open
    /\ last' = [op |-> "fs2ftp", s |-> s, arg |-> fspath,
                result |-> fs2ftp(sessions[s], fspath)]
    /\ UNCHANGED <<USER_DIR_MAP, user_table, sessions, disk, console_vars>>

\* fs.validpath(path)
ValidPath(s, path) ==
    /\ Idle
    /\ sessions[s].open
    /\ last' = [op |-> "validpath", s |-> s, arg |-> path,
                result |-> validpath(sessions[s], path)]
    /\ UNCHANGED <<USER_DIR_MAP, user_table, sessions, disk, console_vars>>

\* authorizer.has_perm(username, perm, path)
HasPerm(u, perm, path) ==
    /\ Idle
    /\ u \in DOMAIN user_table
    /\ last' = [op |-> "has_perm", username |-> u, perm |-> perm, arg |-> path,
                result |-> has_perm(user_table, USER_DIR_MAP, u, perm, path)]
    /\ UNCHANGED <<USER_DIR_MAP, user_table, sessions, disk, console_vars>>

\* The error add_user raises for a registered name.
AuthorizerError == "AuthorizerError: user already exists"

\* python hash_password.py -p password: the verifier is printed.
HashPassword(password) ==
    /\ Idle
    /\ \E salt \in Salts :
           last' = [op |-> "hash_password", password |-> password,
                    result |-> hash_password(password, salt)]
    /\ UNCHANGED <<USER_DIR_MAP, user_table, sessions, disk, console_vars>>

\* authorizer.add_user(username, password_hash, homedir): password_hash is
\* the verifier hash_password has just printed, or one written by hand.
AddUser(username, password_hash) ==
    /\ \/ Idle /\ password_hash \in HandVerifiers
       \/ last.op = "hash_password" /\ password_hash = last.result
    /\ IF username \in DOMAIN user_table
       THEN /\ last' = [op |-> "add_user", username |-> username,
                        raised |-> AuthorizerError]
            /\ user_table' = user_table
       ELSE /\ last' = [op |-> "add_user", username |-> username,
                        raised |-> ""]
            /\ user_table' =
                   [u \in DOMAIN user_table \cup {username} |->
                       IF u = username
                       THEN user_record(password_hash, RootDir, DefaultPerm)
                       ELSE user_table[u]]
    /\ UNCHANGED <<USER_DIR_MAP, sessions, disk, console_vars>>

\* authorizer.validate_authentication(username, password, handler)
ValidateAuthentication(username, password) ==
    /\ Idle
    /\ last' = [op |-> "validate_authentication", username |-> username,
                password |-> password,
                result |-> validate_authentication(user_table, username,
                                                   password)]
    /\ UNCHANGED <<USER_DIR_MAP, user_table, sessions, disk, console_vars>>

\* The overrides registered, over all users.
overrides_count(table) ==
    LET RECURSIVE sum(_)
        sum(us) == IF us = {} THEN 0
                   ELSE LET u == CHOOSE x \in us : TRUE
                        IN  Len(table[u].operms) + sum(us \ {u})
    IN  sum(DOMAIN table)

\* authorizer.override_perm(username, directory, perm, recursive)
OverridePerm(username, directory, perm, recursive) ==
    /\ Idle
    /\ username \in DOMAIN user_table
    /\ overrides_count(user_table) < MaxOverrides
    /\ LET err == override_perm_error(user_table, disk, username, directory)
       IN  /\ last' = [op |-> "override_perm", username |-> username,
                       raised |-> err]
           /\ user_table' =
                  IF err # "" THEN user_table
                  ELSE [user_table EXCEPT ![username].operms =
                           operms_set(@, normcase(normpath(directory)),
                                      perm, recursive)]
    /\ UNCHANGED <<USER_DIR_MAP, sessions, disk, console_vars>>

\* fs.listdir(path): the sorted mount names for "/", else os.listdir(path),
\* whose order is the operating system's.
Listdir(s, path) ==
    /\ Idle
    /\ sessions[s].open
    /\ IF path = RootDir
       THEN last' = [op |-> "listdir", s |-> s, arg |-> path, raised |-> "",
                     result |-> sorted(keys_list(sessions[s].dir_map))]
       ELSE LET names == os_listdir_names(disk, path)
            IN  IF names = {None}
                THEN last' = [op |-> "listdir", s |-> s, arg |-> path,
                              raised |-> "OSError", result |-> <<>>]
                ELSE \E listing \in orderings(names) :
                         last' = [op |-> "listdir", s |-> s, arg |-> path,
                                  raised |-> "", result |-> listing]
    /\ UNCHANGED <<USER_DIR_MAP, user_table, sessions, disk, console_vars>>

(***************************************************************************)
(* setup_server (server.py) as the management console calls it.            *)
(***************************************************************************)
\* d[k] = v on a dict keyed by names.
dict_put(d, k, v) == [x \in DOMAIN d \cup {k} |-> IF x = k THEN v ELSE d[x]]

\* The loop of setup_server over config["users"], as add_user replaces the
\* record of a name that is registered already.
RECURSIVE setup_users_replacing(_, _, _)
setup_users_replacing(users, registry, table) ==
    IF users = <<>>
    THEN [raised |-> "", registry |-> registry, table |-> table]
    ELSE LET user_cfg == Head(users)
         IN  setup_users_replacing(Tail(users),
                 dict_put(registry, user_cfg.username, user_cfg.directories),
                 dict_put(table, user_cfg.username,
                          user_record(user_cfg.password_hash,
                                      home_of(user_cfg.directories),
                                      user_cfg.permissions)))

\* The loop of setup_server over config["users"]: the registry entry is
\* written, then add_user is called on the new authorizer; the loop ends at
\* the first AuthorizerError.
RECURSIVE setup_users(_, _, _)
setup_users(users, registry, table) ==
    IF users = <<>>
    THEN [raised |-> "", registry |-> registry, table |-> table]
    ELSE LET user_cfg == Head(users)
             reg2     == dict_put(registry, user_cfg.username,
                                  user_cfg.directories)
         IN  IF user_cfg.username \in DOMAIN table
             THEN [raised |-> AuthorizerError, registry |-> reg2,
                   table |-> table]
             ELSE setup_users(Tail(users), reg2,
                      dict_put(table, user_cfg.username,
                               user_record(user_cfg.password_hash,
                                           home_of(user_cfg.directories),
                                           user_cfg.permissions)))

\* What FTPServer((host, port), handler) can do: bind and listen, or raise
\* OSError with errno EADDRINUSE or with another errno.
BindOutcomes == {"ok", "EADDRINUSE", "EACCES"}

\* The errors of a bind that failed.
AddrInUse == "OSError: [Errno 98] Address already in use"
OtherBindError == "OSError: [Errno 13] Permission denied"

\* setup_server(config) with the bind ending as outcome: the directories are
\* created, the users registered, FTPHandler.authorizer set, and only then the
\* listening socket bound.  binds counts the bind calls made.
setup_server(config, registry, table, tree, outcome) ==
    LET tree2 == validate_directories(tree, all_directories(config.users))
        loop  == setup_users(config.users, registry, <<>>)
    IN  IF loop.raised # ""
        THEN [raised |-> loop.raised, registry |-> loop.registry,
              table |-> table, tree |-> tree2, binds |-> 0]
        ELSE [raised |-> CASE outcome = "ok" -> ""
                           [] outcome = "EADDRINUSE" -> AddrInUse
                           [] OTHER -> OtherBindError,
              registry |-> loop.registry, table |-> loop.table,
              tree |-> tree2, binds |-> 1]

(***************************************************************************)
(* The management console (app.py): api_start, api_stop, api_status, each  *)
(* handled by a web worker, and the serve_forever thread.                  *)
(***************************************************************************)
\* range(5): the setup_server attempts of one start request.
MaxAttempts == 5

\* The loop of api_start goes round again, as every OSError is retried.
retries_any_oserror(raised, attempt) ==
    raised \in {AddrInUse, OtherBindError} /\ attempt < MaxAttempts

\* The loop of api_start goes round again after the attempt-th round raised:
\* the error is EADDRINUSE and range(5) is not exhausted.
retries(raised, attempt) == raised = AddrInUse /\ attempt < MaxAttempts

\* _ftp_thread and _ftp_thread.is_alive(), as any start may go ahead.
thread_is_alive_never(thread, threads) == FALSE

\* _ftp_thread and _ftp_thread.is_alive()
thread_is_alive(thread, threads) == thread # NoServer /\ thread \in threads

\* not config.get("users"), as a configuration that always names a user.
no_users_never(config) == FALSE

\* not config.get("users")
no_users(config) == config.users = <<>>

\* The JSON body a request is answered with.
Response(op, w, status, message) ==
    [op |-> op, w |-> w, status |-> status, message |-> message,
     attempts |-> workers[w].attempt, binds |-> workers[w].binds]

\* _ftp_server.close_all(), as a call that leaves every socket open.
close_all_nothing(sockets, server) == sockets

\* _ftp_server._serving = False; _ftp_server.close_all(): the listening
\* socket and the connections of the server are closed.
close_all(sockets, server) == sockets \ {server}

\* POST /api/server/start arrives at worker w.
StartRequest(w) ==
    /\ workers[w].pc = "idle"
    /\ workers' = [workers EXCEPT ![w] =
                       [IdleWorker EXCEPT
                           !.pc = "start_wait",
                           !.at_arrival = thread_is_alive(ftp_thread, alive)]]
    /\ UNCHANGED <<USER_DIR_MAP, user_table, sessions, disk, last, config_file,
                   ftp_server, ftp_thread, ftp_lock, listening, alive, started>>

\* api_start takes _ftp_lock: "already running" when the recorded thread is
\* alive, "No users configured" when the configuration names no user, else
\* USER_DIR_MAP.clear() and on to the attempts.
StartEnter(w) ==
    /\ workers[w].pc = "start_wait"
    /\ ftp_lock = Free
    /\ IF thread_is_alive(ftp_thread, alive)
       THEN /\ last' = Response("api_start", w, "error",
                                "FTP server is already running")
            /\ workers' = [workers EXCEPT ![w] = IdleWorker]
            /\ UNCHANGED <<USER_DIR_MAP, ftp_lock>>
       ELSE IF no_users(config_file)
       THEN /\ last' = Response("api_start", w, "error", "No users configured")
            /\ workers' = [workers EXCEPT ![w] = IdleWorker]
            /\ UNCHANGED <<USER_DIR_MAP, ftp_lock>>
       ELSE /\ USER_DIR_MAP' = <<>>
            /\ ftp_lock' = w
            /\ workers' = [workers EXCEPT ![w].pc = "start_try",
                                          ![w].config = config_file]
            /\ last' = last
    /\ UNCHANGED <<user_table, sessions, disk, config_file, ftp_server,
                   ftp_thread, listening, alive, started>>

\* One round of the loop of api_start: setup_server(config), whose bind ends
\* as outcome.  Success records the server and starts its thread; EADDRINUSE
\* sleeps and goes round again, up to MaxAttempts rounds; every other
\* exception ends the request with its message.
StartAttempt(w, outcome) ==
    /\ workers[w].pc = "start_try"
    /\ outcome = "ok" => started < MaxStarts
    /\ LET r == setup_server(workers[w].config, USER_DIR_MAP, user_table, disk,
                             outcome)
           attempt == workers[w].attempt + 1
           binds   == workers[w].binds + r.binds
           done(status, message) ==
               /\ last' = [op |-> "api_start", w |-> w, status |-> status,
                           message |-> message, attempts |-> attempt,
                           binds |-> binds]
               /\ workers' = [workers EXCEPT ![w] = IdleWorker]
               /\ ftp_lock' = Free
       IN  /\ USER_DIR_MAP' = r.registry
           /\ user_table' = r.table
           /\ disk' = r.tree
           /\ IF r.raised = ""
              THEN /\ ftp_server' = started + 1
                   /\ ftp_thread' = started + 1
                   /\ listening' = listening \cup {started + 1}
                   /\ alive' = alive \cup {started + 1}
                   /\ started' = started + 1
                   /\ done("ok", "FTP server started")
              ELSE /\ UNCHANGED <<ftp_server, ftp_thread, listening, alive,
                                  started>>
                   /\ IF retries(r.raised, attempt)
                      THEN /\ workers' = [workers EXCEPT
                                             ![w].attempt = attempt,
                                             ![w].binds = binds,
                                             ![w].last_err = r.raised]
                           /\ UNCHANGED <<last, ftp_lock>>
                      ELSE done("error", r.raised)
    /\ UNCHANGED <<sessions, config_file>>

\* POST /api/server/stop arrives at worker w.
StopRequest(w) ==
    /\ workers[w].pc = "idle"
    /\ workers' = [workers EXCEPT ![w] =
                       [IdleWorker EXCEPT
                           !.pc = "stop_wait",
                           !.at_arrival = thread_is_alive(ftp_thread, alive)]]
    /\ UNCHANGED <<USER_DIR_MAP, user_table, sessions, disk, last, config_file,
                   ftp_server, ftp_thread, ftp_lock, listening, alive, started>>

\* api_stop takes _ftp_lock: "not running" when no recorded thread is alive,
\* else _serving = False and close_all(), and on to the join.
StopEnter(w) ==
    /\ workers[w].pc = "stop_wait"
    /\ ftp_lock = Free
    /\ IF ~thread_is_alive(ftp_thread, alive)
       THEN /\ last' = Response("api_stop", w, "error",
                                "FTP server is not running")
            /\ workers' = [workers EXCEPT ![w] = IdleWorker]
            /\ UNCHANGED <<ftp_lock, listening>>
       ELSE /\ listening' = close_all(listening, ftp_server)
            /\ ftp_lock' = w
            /\ workers' = [workers EXCEPT ![w].pc = "stop_join"]
            /\ last' = last
    /\ UNCHANGED <<USER_DIR_MAP, user_table, sessions, disk, config_file,
                   ftp_server, ftp_thread, alive, started>>

\* _ftp_thread.join(timeout=10) returns: the thread has ended and the
\* records are cleared, or it is still alive and the request reports it.
StopJoin(w) ==
    /\ workers[w].pc = "stop_join"
    /\ IF thread_is_alive(ftp_thread, alive)
       THEN /\ last' = Response("api_stop", w, "error",
                                "Server did not stop in time")
            /\ UNCHANGED <<ftp_server, ftp_thread>>
       ELSE /\ last' = Response("api_stop", w, "ok", "FTP server stopped")
            /\ ftp_server' = NoServer
            /\ ftp_thread' = NoServer
    /\ workers' = [workers EXCEPT ![w] = IdleWorker]
    /\ ftp_lock' = Free
    /\ UNCHANGED <<USER_DIR_MAP, user_table, sessions, disk, config_file,
                   listening, alive, started>>

\* serve_forever returns in thread t: its server's sockets are closed.
ThreadExit(t) ==
    /\ t \in alive
    /\ t \notin listening
    /\ alive' = alive \ {t}
    /\ UNCHANGED <<USER_DIR_MAP, user_table, sessions, disk, last, config_file,
                   ftp_server, ftp_thread, ftp_lock, listening, started,
                   workers>>

\* GET /api/server/status: running = _ftp_thread is not None and
\* _ftp_thread.is_alive().
Status(w) ==
    /\ workers[w].pc = "idle"
    /\ last' = [op |-> "api_status", w |-> w,
                running |-> thread_is_alive(ftp_thread, alive)]
    /\ UNCHANGED <<USER_DIR_MAP, user_table, sessions, disk, console_vars>>

(***************************************************************************)
(* The management console (app.py): api_save_config.                       *)
(***************************************************************************)
\* request.get_json() is {}: nothing to save.
EmptyBody == [users |-> <<>>, empty |-> TRUE]

\* The user entry api_save_config stores for an entry of the request:
\* new_password, when given, is hashed; else the stored hash of the same
\* username is kept; else the hash is "".
\* user.get(field, default)
dict_get(user, field, default) ==
    IF field \in DOMAIN user THEN user[field] ELSE default

\* The loop body of api_save_config, as a password_hash the
\* request supplies is taken before the stored one.
save_user_prefers_supplied(user, old_users, salt) ==
    LET olds   == {i \in DOMAIN old_users :
                      old_users[i].username = user.username}
        new_pw == dict_get(user, "new_password", <<>>)
        hash   == IF new_pw # <<>>
                  THEN hash_password(new_pw, salt)
                  ELSE IF "password_hash" \in DOMAIN user
                  THEN user.password_hash
                  ELSE IF olds # {}
                  THEN dict_get(old_users[CHOOSE i \in olds :
                                              \A j \in olds : j <= i],
                                "password_hash", <<>>)
                  ELSE <<>>
    IN  [f \in (DOMAIN user \ {"new_password", "has_password"})
                   \cup {"password_hash"} |->
            IF f = "password_hash" THEN hash ELSE user[f]]

\* The loop body of api_save_config: new_password and has_password are
\* popped; a new password is hashed; else the stored hash of the same
\* username (the last entry of that name) is taken; else
\* setdefault("password_hash", "").
save_user(user, old_users, salt) ==
    LET olds   == {i \in DOMAIN old_users :
                      old_users[i].username = user.username}
        new_pw == dict_get(user, "new_password", <<>>)
        hash   == IF new_pw # <<>>
                  THEN hash_password(new_pw, salt)
                  ELSE IF olds # {}
                  THEN dict_get(old_users[CHOOSE i \in olds :
                                              \A j \in olds : j <= i],
                                "password_hash", <<>>)
                  ELSE dict_get(user, "password_hash", <<>>)
    IN  [f \in (DOMAIN user \ {"new_password", "has_password"})
                   \cup {"password_hash"} |->
            IF f = "password_hash" THEN hash ELSE user[f]]

\* The JSON body the console's page posts for a configuration it has read:
\* has_password as read, and new_password for the user named setter.
body_as_read(config, setter) ==
    [users |-> [i \in DOMAIN config.users |->
        [username |-> config.users[i].username,
         permissions |-> config.users[i].permissions,
         directories |-> config.users[i].directories,
         has_password |-> FALSE,
         new_password |-> IF config.users[i].username = setter
                          THEN <<"a">> ELSE <<>>]]]

\* A JSON body whose user entries carry a password_hash of their own and no
\* new_password.
body_with_hash(config, supplied) ==
    [users |-> [i \in DOMAIN config.users |->
        [username |-> config.users[i].username,
         permissions |-> config.users[i].permissions,
         directories |-> config.users[i].directories,
         password_hash |-> supplied]]]

\* api_get_config, as the stored hashes are left in the response.
get_config_users_unstripped(config) ==
    [i \in DOMAIN config.users |->
        [f \in DOMAIN config.users[i] \cup {"has_password"} |->
            IF f = "has_password"
            THEN dict_get(config.users[i], "password_hash", <<>>) # <<>>
            ELSE config.users[i][f]]]

\* api_get_config: every user gets has_password =
\* bool(user.get("password_hash", "")) and loses password_hash.
get_config_users(config) ==
    [i \in DOMAIN config.users |->
        [f \in (DOMAIN config.users[i] \cup {"has_password"})
                   \ {"password_hash"} |->
            IF f = "has_password"
            THEN dict_get(config.users[i], "password_hash", <<>>) # <<>>
            ELSE config.users[i][f]]]

\* The JSON body of a save request for a configuration, with new_password
\* for the user named setter ("" for none).
body_of(config, setter) ==
    [users |-> [i \in DOMAIN config.users |->
        [username |-> config.users[i].username,
         permissions |-> config.users[i].permissions,
         directories |-> config.users[i].directories,
         new_password |-> IF config.users[i].username = setter
                          THEN <<"a">> ELSE <<>>]]]

\* POST /api/config with body arrives at worker w: "Invalid data" for {},
\* else the stored configuration is loaded and the hashes settled.
SaveLoad(w, body, salt) ==
    /\ workers[w].pc = "idle"
    /\ IF body = EmptyBody
       THEN /\ last' = [op |-> "api_save_config", w |-> w, status |-> "error",
                        message |-> "Invalid data"]
            /\ workers' = workers
       ELSE /\ workers' = [workers EXCEPT
                ![w].pc = "save_write",
                ![w].body = body,
                ![w].config =
                    [users |-> [i \in DOMAIN body.users |->
                        save_user(body.users[i], config_file.users, salt)]]]
            /\ last' = last
    /\ UNCHANGED <<USER_DIR_MAP, user_table, sessions, disk, config_file,
                   ftp_server, ftp_thread, ftp_lock, listening, alive, started>>

\* api_save_config writes the document to CONFIG_PATH and answers.  The
\* record of the answer also notes the request's body and the document the
\* write replaced.
SaveWrite(w) ==
    /\ workers[w].pc = "save_write"
    /\ config_file' = workers[w].config
    /\ last' = [op |-> "api_save_config", w |-> w, status |-> "ok",
                message |-> "Configuration saved",
                body |-> workers[w].body, previous |-> config_file]
    /\ workers' = [workers EXCEPT ![w] = IdleWorker]
    /\ UNCHANGED <<USER_DIR_MAP, user_table, sessions, disk, ftp_server,
                   ftp_thread, ftp_lock, listening, alive, started>>

\* GET /api/config at worker w.
GetConfig(w) ==
    /\ workers[w].pc = "idle"
    /\ last' = [op |-> "api_get_config", w |-> w,
                users |-> get_config_users(config_file)]
    /\ UNCHANGED <<USER_DIR_MAP, user_table, sessions, disk, console_vars>>

(***************************************************************************)
(* Spec: sessions that log in, change directory and translate virtual      *)
(* paths.                                                                  *)
(***************************************************************************)
Next ==
    \/ \E s \in SessionIds, u \in DOMAIN user_table : Connect(s, u)
    \/ \E s \in SessionIds, path \in DirPaths : ChDir(s, path)
    \/ \E s \in SessionIds, ftppath \in FtpPaths : Ftp2fs(s, ftppath)
    \/ Return

Spec == Init /\ [][Next]_vars

(***************************************************************************)
(* SpecQuery: sessions and the authorizer answering questions about real   *)
(* paths.                                                                  *)
(***************************************************************************)
NextQuery ==
    \/ \E s \in SessionIds, u \in DOMAIN user_table : Connect(s, u)
    \/ \E s \in SessionIds, fspath \in RealPaths : Fs2ftp(s, fspath)
    \/ \E s \in SessionIds, path \in RealPaths : ValidPath(s, path)
    \/ \E u \in DOMAIN user_table, perm \in PermChars,
          path \in RealPaths \cup {NonePath} : HasPerm(u, perm, path)
    \/ Return

SpecQuery == Init /\ [][NextQuery]_vars

(***************************************************************************)
(* SpecDisk: sessions that remove directories.                             *)
(***************************************************************************)
NextDisk ==
    \/ \E s \in SessionIds, u \in DOMAIN user_table : Connect(s, u)
    \/ \E s \in SessionIds, path \in RealPaths : Rmdir(s, path)
    \/ Return

SpecDisk == Init /\ [][NextDisk]_vars

(***************************************************************************)
(* SpecAuth: an authorizer that users are added to, with verifiers made by *)
(* hash_password or written by hand, and that logins are checked against.  *)
(***************************************************************************)
InitAuth ==
    /\ USER_DIR_MAP = <<>>
    /\ user_table = <<>>
    /\ disk = {RootDir}
    /\ sessions = [s \in SessionIds |-> NoSession]
    /\ last = NoCall
    /\ ConsoleOff(NoUsersConfig)

NextAuth ==
    \/ \E password \in Passwords : HashPassword(password)
    \/ \E username \in LoginNames, password_hash \in Verifiers :
           AddUser(username, password_hash)
    \/ \E username \in LoginNames, password \in Passwords :
           ValidateAuthentication(username, password)
    \/ Return

SpecAuth == InitAuth /\ [][NextAuth]_vars

(***************************************************************************)
(* SpecConsole: the management console serving start, stop and status      *)
(* requests on its workers while the server thread runs.                   *)
(***************************************************************************)
\* A configuration that names the user "u1" twice.
ConfigDup ==
    [users |-> <<
        [username |-> "u1", password_hash |-> <<>>,
         permissions |-> <<"e", "l", "r">>,
         directories |-> << <<"d", <<"", "d">> >> >>],
        [username |-> "u1", password_hash |-> <<>>,
         permissions |-> <<"e", "l", "r", "d", "w">>,
         directories |-> << <<"x", <<"", "x">> >> >>] >>]

ConsoleConfigs == {ConfigA, ConfigDup, NoUsersConfig}

\* app.py main() without auto_start: nothing is registered, no server runs.
InitConsole ==
    \E config \in ConsoleConfigs :
        /\ USER_DIR_MAP = <<>>
        /\ user_table = <<>>
        /\ disk = {RootDir}
        /\ sessions = [s \in SessionIds |-> NoSession]
        /\ last = NoCall
        /\ ConsoleOff(config)

NextConsole ==
    \/ \E w \in Workers : StartRequest(w)
    \/ \E w \in Workers : StartEnter(w)
    \/ \E w \in Workers, outcome \in BindOutcomes : StartAttempt(w, outcome)
    \/ \E w \in Workers : StopRequest(w)
    \/ \E w \in Workers : StopEnter(w)
    \/ \E w \in Workers : StopJoin(w)
    \/ \E t \in alive : ThreadExit(t)
    \/ \E w \in Workers : Status(w)

SpecConsole == InitConsole /\ [][NextConsole]_vars

\* join(timeout=10) returns within its timeout whether or not the server
\* thread ends: a stop request at the join always goes on.
FairSpecConsole ==
    SpecConsole /\ \A w \in Workers : WF_vars(StopJoin(w))

(***************************************************************************)
(* SpecService: the Windows service (service.py), which starts the FTP     *)
(* server itself and then hosts the management console.                    *)
(***************************************************************************)
\* FKFTPService.main up to its wait for the stop event: USER_DIR_MAP.clear(),
\* setup_server(config), the serve_forever thread started; the server is kept
\* in self._ftp_server, and app.py's _ftp_server and _ftp_thread stay None.
InitService ==
    \E config \in {ConfigA, ConfigB}, outcome \in BindOutcomes :
        LET r == setup_server(config, <<>>, <<>>, {RootDir}, outcome)
        IN  /\ USER_DIR_MAP = r.registry
            /\ user_table = r.table
            /\ disk = r.tree
            /\ sessions = [s \in SessionIds |-> NoSession]
            /\ last = NoCall
            /\ config_file = config
            /\ ftp_server = NoServer
            /\ ftp_thread = NoServer
            /\ ftp_lock = Free
            /\ listening = IF r.raised = "" THEN {1} ELSE {}
            /\ alive = IF r.raised = "" THEN {1} ELSE {}
            /\ started = IF r.raised = "" THEN 1 ELSE 0
            /\ workers = [w \in Workers |-> IdleWorker]

\* flask_app.run in the service's thread: the console's requests.
NextService == NextConsole

SpecService == InitService /\ [][NextService]_vars

(***************************************************************************)
(* SpecServiceSessions: the Windows service with users logged in on the    *)
(* server it started, while its console takes start requests.              *)
(***************************************************************************)
\* A user logs in on connection s of a server that is listening and whose
\* thread runs.
Login(s, u) ==
    /\ listening \cap alive # {}
    /\ Connect(s, u)

NextServiceSessions ==
    \/ \E s \in SessionIds, u \in DOMAIN user_table : Login(s, u)
    \/ \E s \in SessionIds, path \in DirPaths : ChDir(s, path)
    \/ Return
    \/ StartRequest("w1")
    \/ StartEnter("w1")
    \/ \E outcome \in BindOutcomes : StartAttempt("w1", outcome)

SpecServiceSessions == InitService /\ [][NextServiceSessions]_vars

(***************************************************************************)
(* SpecConsoleCfg: the management console, its configuration saved anew    *)
(* between the start and stop requests.                                    *)
(***************************************************************************)
\* The bodies of the save requests.
SaveBodies ==
    {EmptyBody, body_of(NoUsersConfig, ""), body_of(ConfigA, ""),
     body_of(ConfigA, "u2")}

InitConsoleCfg ==
    \E config \in {ConfigA, NoUsersConfig} :
        /\ USER_DIR_MAP = <<>>
        /\ user_table = <<>>
        /\ disk = {RootDir}
        /\ sessions = [s \in SessionIds |-> NoSession]
        /\ last = NoCall
        /\ ConsoleOff(config)

NextConsoleCfg ==
    \/ \E body \in SaveBodies, salt \in Salts : SaveLoad("w1", body, salt)
    \/ SaveWrite("w1")
    \/ StartRequest("w2")
    \/ StartEnter("w2")
    \/ \E outcome \in BindOutcomes : StartAttempt("w2", outcome)
    \/ StopRequest("w2")
    \/ StopEnter("w2")
    \/ StopJoin("w2")
    \/ \E t \in alive : ThreadExit(t)
    \/ Status("w2")

SpecConsoleCfg == InitConsoleCfg /\ [][NextConsoleCfg]_vars

(***************************************************************************)
(* SpecSave: the management console's configuration read and saved by two  *)
(* workers, whose requests may overlap; SpecSaveSeq: by one worker, one    *)
(* request after another.                                                  *)
(***************************************************************************)
\* A configuration with the single user "u1", no password set.
ConfigU1 ==
    [users |-> <<
        [username |-> "u1", password_hash |-> <<>>,
         permissions |-> <<"e", "l", "r">>,
         directories |-> << <<"d", <<"", "d">> >> >>] >>]

\* The same, written by hand without a password_hash.
ConfigU1NoHash ==
    [users |-> <<
        [username |-> "u1",
         permissions |-> <<"e", "l", "r">>,
         directories |-> << <<"d", <<"", "d">> >> >>] >>]

\* A verifier a request supplies as password_hash.
SuppliedHash == hash_password(<<"$">>, [i \in 1..SaltLen |-> "0"])

\* The bodies of the save requests.
SaveRequests ==
    {EmptyBody, body_as_read(NoUsersConfig, ""), body_as_read(ConfigU1, ""),
     body_as_read(ConfigU1, "u1"), body_with_hash(ConfigU1, SuppliedHash)}

InitSave ==
    \E config \in {ConfigU1, ConfigU1NoHash, NoUsersConfig} :
        /\ USER_DIR_MAP = <<>>
        /\ user_table = <<>>
        /\ disk = {RootDir}
        /\ sessions = [s \in SessionIds |-> NoSession]
        /\ last = NoCall
        /\ ConsoleOff(config)

NextSave ==
    \/ \E w \in Workers, body \in SaveRequests, salt \in Salts :
           SaveLoad(w, body, salt)
    \/ \E w \in Workers : SaveWrite(w)
    \/ \E w \in Workers : GetConfig(w)

SpecSave == InitSave /\ [][NextSave]_vars

NextSaveSeq ==
    \/ \E body \in SaveRequests, salt \in Salts : SaveLoad("w1", body, salt)
    \/ SaveWrite("w1")
    \/ GetConfig("w1")

SpecSaveSeq == InitSave /\ [][NextSaveSeq]_vars

(***************************************************************************)
(* SpecFrame: two connections at once, each with its own filesystem        *)
(* object, and the authorizer they share.                                  *)
(***************************************************************************)
FrameSessions == {"s1", "s2"}

\* The real paths and the virtual paths of the calls.
FrameRealPaths == UNION {[1..n -> RealTok] : n \in 1..MaxFrameSegs}
FrameFtpPaths == UNION {[1..n -> FtpTok] : n \in 1..MaxFrameSegs}

InitFrame ==
    /\ USER_DIR_MAP = registry_of(ConfigA)
    /\ user_table = table_of(ConfigA)
    /\ disk = validate_directories({RootDir}, all_directories(ConfigA.users))
    /\ sessions = [s \in FrameSessions |-> NoSession]
    /\ last = NoCall
    /\ ConsoleOff(ConfigA)

NextFrame ==
    \/ \E s \in FrameSessions, u \in DOMAIN user_table : Connect(s, u)
    \/ \E s \in FrameSessions, path \in FrameRealPaths : ChDir(s, path)
    \/ \E s \in FrameSessions, ftppath \in FrameFtpPaths : Ftp2fs(s, ftppath)
    \/ \E s \in FrameSessions, fspath \in FrameRealPaths : Fs2ftp(s, fspath)
    \/ \E s \in FrameSessions, path \in FrameRealPaths : ValidPath(s, path)
    \/ \E u \in DOMAIN user_table, perm \in PermChars, path \in FrameRealPaths :
           HasPerm(u, perm, path)
    \/ \E username \in LoginNames, password \in Passwords :
           ValidateAuthentication(username, password)
    \/ \E s \in FrameSessions, path \in FrameRealPaths : Rmdir(s, path)
    \/ Return

SpecFrame == InitFrame /\ [][NextFrame]_vars

(***************************************************************************)
(* SpecList: sessions that list directories.                               *)
(***************************************************************************)
InitList ==
    \E config \in Configs \cup {ConfigC} :
        /\ USER_DIR_MAP = registry_of(config)
        /\ user_table = table_of(config)
        /\ disk = validate_directories({RootDir}, all_directories(config.users))
        /\ sessions = [s \in SessionIds |-> NoSession]
        /\ last = NoCall
        /\ ConsoleOff(config)

NextList ==
    \/ \E s \in SessionIds, u \in DOMAIN user_table : Connect(s, u)
    \/ \E s \in SessionIds, path \in DirPaths : Listdir(s, path)
    \/ Return

SpecList == InitList /\ [][NextList]_vars

(***************************************************************************)
(* SpecPerm: an authorizer whose users are given per-directory overrides   *)
(* and that is asked for permissions.                                      *)
(***************************************************************************)
\* Directories the host holds before the server starts.
HostDirs == {<<"", "d", "x", "d">>}

\* The directories override_perm is called with.
OverrideDirs ==
    {<<"", "d">>, <<"", "x">>, <<"", "d", "x">>, <<"", "d", "x", "d">>,
     <<"", "d", "x", ".">>, <<"", "x", "x">>}

\* The permission strings of the overrides.
OverridePerms == {<<"r">>, <<"w">>}

\* The paths has_perm is asked about: every normalized path of directories
\* named "d" and "x", the root, None, and two strings that are not normalized.
PermPaths ==
    {p \in RealPaths : Len(p) >= 2 /\ p[1] = ""
                       /\ \A i \in 2..Len(p) : p[i] \in {"d", "x"}}
    \cup {RootDir, NonePath, <<"", "d", ".", "x">>, <<"", "d", "x", "..">>}

InitPerm ==
    \E config \in Configs :
        /\ USER_DIR_MAP = registry_of(config)
        /\ user_table = table_of(config)
        /\ disk = validate_directories(
                      UNION {os_makedirs({RootDir}, h) : h \in HostDirs},
                      all_directories(config.users))
        /\ sessions = [s \in SessionIds |-> NoSession]
        /\ last = NoCall
        /\ ConsoleOff(config)

NextPerm ==
    \/ \E username \in DOMAIN user_table, directory \in OverrideDirs,
          perm \in OverridePerms, recursive \in BOOLEAN :
           OverridePerm(username, directory, perm, recursive)
    \/ \E u \in DOMAIN user_table, perm \in PermChars, path \in PermPaths :
           HasPerm(u, perm, path)
    \/ Return

SpecPerm == InitPerm /\ [][NextPerm]_vars

(***************************************************************************)
(* What the claims speak of, stated apart from the code: one path string   *)
(* extending another at a separator, and the names of a virtual path.      *)
(***************************************************************************)
\* The names of a path string, outermost first.
RefNames(p) == SelectSeq(p, LAMBDA t : t # "")

\* String p starts with string base, is longer, and the two meet at a
\* separator: base ends with "/" or p goes on with "/".
RefBelow(p, base) ==
    LET n == Len(base)
    IN  /\ p # base
        /\ Len(p) >= n
        /\ SubSeq(p, 1, n - 1) = SubSeq(base, 1, n - 1)
        /\ \/ (n >= 2 /\ base[n] = "")
           \/ (p[n] = base[n] /\ Len(p) > n)

\* p is base or extends it at a separator.
RefInside(p, base) == p = base \/ RefBelow(p, base)

\* The names left after walking pieces from the name stack: "" and "." stay,
\* ".." leaves a directory (the root is its own parent), a name enters it.
RECURSIVE RefWalk(_, _)
RefWalk(stack, pieces) ==
    IF pieces = <<>> THEN stack
    ELSE LET t == Head(pieces)
         IN  IF t \in {"", "."} THEN RefWalk(stack, Tail(pieces))
             ELSE IF t = ".."
             THEN RefWalk(IF stack = <<>> THEN stack ELSE Front(stack), Tail(pieces))
             ELSE RefWalk(Append(stack, t), Tail(pieces))

\* The names of virtual path ftppath, resolved in the virtual namespace against
\* the current directory cwd when it is relative.
RefVirtualNames(cwd, ftppath) ==
    IF isabs(ftppath) THEN RefWalk(<<>>, ftppath)
    ELSE RefWalk(RefNames(cwd), ftppath)

\* The normalized real roots of the mounts registered for username.
RefMountRoots(username) ==
    {normpath(b) : b \in Values(registry_get(USER_DIR_MAP, username))}

\* The mounts of username whose name is name up to case, as indexes.
RefMountsNamed(username, name) ==
    {i \in DOMAIN registry_get(USER_DIR_MAP, username) :
        lower(registry_get(USER_DIR_MAP, username)[i][1]) = lower(name)}

\* The normalized real roots of every mount of every user.
RefAllMountRoots == UNION {RefMountRoots(u) : u \in DOMAIN USER_DIR_MAP}

(***************************************************************************)
(* C1.  has_perm(u, p, path) is false for every permission character p and *)
(* every path string, normalized or not, that neither is nor names "/",    *)
(* that no override of u governs and that, normalized, is neither a mount  *)
(* root of u nor below one, also when it lies in a mount of another user.  *)
(* (SpecQuery)                                                             *)
(***************************************************************************)
C1_DeniedOutsideMounts ==
    (/\ last.op = "has_perm"
     /\ last.arg # NonePath
     /\ last.arg # RootDir
     /\ normpath(last.arg) # RootDir
     /\ \A i \in DOMAIN user_table[last.username].operms :
            LET o == user_table[last.username].operms[i]
            IN  ~(\/ normpath(last.arg) = o[1]
                  \/ (o[3] /\ RefBelow(normpath(last.arg), o[1])))
     /\ \A b \in RefMountRoots(last.username) : ~RefInside(normpath(last.arg), b))
    => last.result = FALSE

(***************************************************************************)
(* C2.  Whenever the first name of the virtual path, resolved in the       *)
(* virtual namespace against the session's current directory, is a mount   *)
(* name of the user up to case, ftp2fs returns the real root of a mount of *)
(* that name or a path below it: ".." never leaves the mount.  (Spec)      *)
(***************************************************************************)
C2_Ftp2fsStaysInMount ==
    last.op = "ftp2fs" =>
        LET self  == sessions[last.s]
            names == RefVirtualNames(self.cwd, last.arg)
        IN  (names # <<>> /\ RefMountsNamed(self.username, names[1]) # {}) =>
                \E i \in RefMountsNamed(self.username, names[1]) :
                    RefInside(last.result,
                              normpath(USER_DIR_MAP[self.username][i][2]))

\* A relative path with ".." translated from a current directory inside a mount
\* to a path strictly below a mount root.
C2_Witness ==
    /\ last.op = "ftp2fs"
    /\ sessions[last.s].cwd # RootDir
    /\ ~isabs(last.arg)
    /\ \E i \in DOMAIN last.arg : last.arg[i] = ".."
    /\ \E b \in RefMountRoots(sessions[last.s].username) : RefBelow(last.result, b)

(***************************************************************************)
(* C3.  Whenever the first name of the resolved virtual path is no mount   *)
(* name of the user up to case, ftp2fs returns "__invalid__/<name>", which *)
(* validpath rejects and which is neither a mount root of the user nor     *)
(* below one.  (Spec)                                                      *)
(***************************************************************************)
C3_UnknownMountInvalid ==
    last.op = "ftp2fs" =>
        LET self  == sessions[last.s]
            names == RefVirtualNames(self.cwd, last.arg)
        IN  (names # <<>> /\ RefMountsNamed(self.username, names[1]) = {}) =>
                /\ last.result = <<"__invalid__", names[1]>>
                /\ ~validpath(self, last.result)
                /\ \A b \in RefMountRoots(self.username) :
                       ~RefInside(normpath(last.result), b)

\* A path below an unknown first name was translated.
C3_Witness ==
    /\ last.op = "ftp2fs"
    /\ Len(RefVirtualNames(sessions[last.s].cwd, last.arg)) > 1
    /\ RefMountsNamed(sessions[last.s].username,
                      RefVirtualNames(sessions[last.s].cwd, last.arg)[1]) = {}
    /\ last.result[1] = "__invalid__"

(***************************************************************************)
(* C4.  validpath(path) is true exactly when path is "/" or the normalized *)
(* path is the normalized real root of one of the session user's mounts or *)
(* lies below it.  (SpecQuery)                                             *)
(***************************************************************************)
C4_ValidIffInMount ==
    last.op = "validpath" =>
        (last.result <=>
            \/ last.arg = RootDir
            \/ \E b \in RefMountRoots(sessions[last.s].username) :
                   RefInside(normpath(last.arg), b))

(***************************************************************************)
(* C5.  For every normalized real path R that is the real root of one of   *)
(* the session user's mounts or lies below one, ftp2fs(fs2ftp(R)) = R.     *)
(* (SpecQuery)                                                             *)
(***************************************************************************)
C5_RoundTrip ==
    (/\ last.op = "fs2ftp"
     /\ normpath(last.arg) = last.arg
     /\ \E b \in RefMountRoots(sessions[last.s].username) : RefInside(last.arg, b))
    => ftp2fs(sessions[last.s], last.result) = last.arg

(***************************************************************************)
(* C6.  rmdir on a path that normalizes to the real root of one of the     *)
(* session user's mounts raises the mount-point FilesystemError and leaves *)
(* the directory tree as it is, empty directory or not; rmdir on any other *)
(* path hands the path to os.rmdir.  (SpecDisk)                            *)
(***************************************************************************)
C6_RmdirMountRoot ==
    [][last'.op = "rmdir" =>
          IF normpath(last'.arg) \in RefMountRoots(sessions[last'.s].username)
          THEN /\ last'.raised = MountPointError
               /\ last'.os_arg = NonePath
               /\ disk' = disk
          ELSE last'.os_arg = last'.arg]_vars

\* rmdir was refused for an empty mount root named by a path that is not
\* normalized.
C6_Witness ==
    /\ last.op = "rmdir"
    /\ last.raised = MountPointError
    /\ normpath(last.arg) # last.arg
    /\ normpath(last.arg) \in disk
    /\ ~\E o \in disk : o # normpath(last.arg) /\ IsPrefix(normpath(last.arg), o)

(***************************************************************************)
(* C7.  No rmdir a session issues on a path that is valid for it removes a *)
(* directory registered as a mount root for any user.  (SpecDisk)          *)
(***************************************************************************)
C7_MountRootsSurvive ==
    [][(last'.op = "rmdir" /\ validpath(sessions[last'.s], last'.arg)) =>
          \A r \in RefAllMountRoots : r \in disk => r \in disk']_vars

(***************************************************************************)
(* C8.  For a user registered with a verifier hash_password made for the   *)
(* password P, validate_authentication succeeds exactly for the password   *)
(* P; every other user whose verifier was made for the same P, with        *)
(* whatever salt, is authenticated by P as well.  (SpecAuth)               *)
(***************************************************************************)
C8_VerifierRoundTrip ==
    (last.op = "validate_authentication" /\ last.username \in DOMAIN user_table)
    => \A P \in Passwords, salt \in Salts :
           user_table[last.username].pwd = hash_password(P, salt) =>
               /\ last.result = Authenticated <=> last.password = P
               /\ \A v \in DOMAIN user_table, salt2 \in Salts :
                      user_table[v].pwd = hash_password(P, salt2) =>
                          validate_authentication(user_table, v, P)
                              = Authenticated

\* Two users hold verifiers made for one password with different salts, and
\* the password, which contains "$", has just authenticated one of them.
C8_Witness ==
    /\ last.op = "validate_authentication"
    /\ last.result = Authenticated
    /\ contains(last.password, "$")
    /\ DOMAIN user_table = LoginNames
    /\ \E s1 \in Salts, s2 \in Salts :
           /\ s1 # s2
           /\ user_table["u1"].pwd = hash_password(last.password, s1)
           /\ user_table["u2"].pwd = hash_password(last.password, s2)

C10_UnknownUserIndistinguishable ==
    (last.op = "validate_authentication" /\ last.username \notin DOMAIN user_table)
    => /\ last.result = AuthenticationFailedMsg
       /\ \A v \in DOMAIN user_table, password \in Passwords :
              (/\ contains(user_table[v].pwd, "$")
               /\ validate_authentication(user_table, v, password)
                      # Authenticated)
              => validate_authentication(user_table, v, password) = last.result

\* A login was refused for an unregistered name while a registered user
\* holds a well-formed verifier.
C10_Witness ==
    /\ last.op = "validate_authentication"
    /\ last.username \notin DOMAIN user_table
    /\ \E v \in DOMAIN user_table : contains(user_table[v].pwd, "$")

\* The override o = <<directory, permissions, recursive>> covers path: path is
\* its directory, or lies below it and the override is marked recursive.
RefGoverns(o, path) == path = o[1] \/ (o[3] /\ RefBelow(path, o[1]))

\* The user's records with every override taken away.
RefNoOverrides(table, username) ==
    [table EXCEPT ![username].operms = <<>>]

\* has_perm was asked about a normalized path other than None and "/".
RefPermAsked ==
    /\ last.op = "has_perm"
    /\ last.arg # NonePath
    /\ last.arg # RootDir
    /\ normpath(last.arg) = last.arg

C12_BasePermInEveryMount ==
    (/\ last.op = "has_perm"
     /\ \/ last.arg = NonePath
        \/ last.arg = RootDir
        \/ /\ normpath(last.arg) = last.arg
           /\ \A i \in DOMAIN user_table[last.username].operms :
                  ~RefGoverns(user_table[last.username].operms[i], last.arg)
           /\ \E b \in RefMountRoots(last.username) : RefInside(last.arg, b))
    => last.result = InPerm(last.perm, user_table[last.username].perm)

\* The spellings of a name that differ from it by case only.
RefCaseVariants(name) == {v \in FtpTok : lower(v) = lower(name)}

(***************************************************************************)
(* C13.  When exactly one mount of the session user has a name equal, up   *)
(* to case, to the first name of the resolved virtual path, ftp2fs returns *)
(* the path of the remaining names below that mount's real root, the same  *)
(* for every spelling of the first name that differs by case only, and     *)
(* _find_mount returns the registered spelling for each of them.  (Spec)   *)
(***************************************************************************)
C13_CaseInsensitiveMount ==
    last.op = "ftp2fs" =>
        LET self  == sessions[last.s]
            names == RefVirtualNames(self.cwd, last.arg)
        IN  (names # <<>> /\
             Cardinality(RefMountsNamed(self.username, names[1])) = 1) =>
                LET i    == CHOOSE k \in RefMountsNamed(self.username, names[1]) :
                                TRUE
                    root == normpath(USER_DIR_MAP[self.username][i][2])
                IN  /\ last.result = normpath(join(root, Tail(names)))
                    /\ RefInside(last.result, root)
                    /\ \A v \in RefCaseVariants(names[1]) :
                           /\ find_mount(self, v) =
                                  USER_DIR_MAP[self.username][i][1]
                           /\ ftp2fs(self, <<"", v>> \o Tail(names)) =
                                  last.result

\* A path below a mount was translated through a spelling of the mount name
\* that is not the registered one.
C13_Witness ==
    /\ last.op = "ftp2fs"
    /\ LET self  == sessions[last.s]
           names == RefVirtualNames(self.cwd, last.arg)
       IN  /\ Len(names) > 1
           /\ Cardinality(RefMountsNamed(self.username, names[1])) = 1
           /\ \A k \in RefMountsNamed(self.username, names[1]) :
                  /\ USER_DIR_MAP[self.username][k][1] # names[1]
                  /\ RefBelow(last.result,
                              normpath(USER_DIR_MAP[self.username][k][2]))

\* What is left of the normalized path p below the mount root base, in
\* pieces.
RefRemainder(p, base) ==
    IF Last(base) = "" THEN SubSeq(p, Len(base), Len(p))
    ELSE SubSeq(p, Len(base) + 1, Len(p))

(***************************************************************************)
(* C14.  fs2ftp returns "/" when the normalized path is neither the real   *)
(* root of a mount of the session user nor below one; otherwise, for the   *)
(* first such mount in the mapping's order, it returns "/<mount_name>" for *)
(* the root and "/<mount_name>/<remainder>" for a path below it.           *)
(* (SpecQuery)                                                             *)
(***************************************************************************)
C14_Fs2ftpShape ==
    last.op = "fs2ftp" =>
        LET self    == sessions[last.s]
            mounts  == USER_DIR_MAP[self.username]
            R       == normpath(last.arg)
            matches == {i \in DOMAIN mounts :
                            RefInside(R, normpath(mounts[i][2]))}
        IN  IF matches = {} THEN last.result = RootDir
            ELSE LET i    == CHOOSE k \in matches : \A j \in matches : k <= j
                     root == normpath(mounts[i][2])
                 IN  last.result =
                         IF R = root THEN <<"", mounts[i][1]>>
                         ELSE <<"", mounts[i][1]>> \o RefRemainder(R, root)

(***************************************************************************)
(* C15.  listdir("/") returns the mount names of the session user, each    *)
(* once, in ascending code-point order, whatever the order they were       *)
(* registered in: no name of the disk and no mount name of another user    *)
(* that is not a mount name of the session user.  (SpecList)               *)
(***************************************************************************)
C15_ListdirRootSorted ==
    (last.op = "listdir" /\ last.arg = RootDir) =>
        LET names == Keys(USER_DIR_MAP[sessions[last.s].username])
        IN  /\ last.raised = ""
            /\ {last.result[i] : i \in DOMAIN last.result} = names
            /\ Len(last.result) = Cardinality(names)
            /\ \A i, j \in DOMAIN last.result :
                   i < j => ord(last.result[i]) < ord(last.result[j])

\* The root was listed for a user whose three mounts were not registered in
\* sorted order, while the root of the disk holds other names.
C15_Witness ==
    /\ last.op = "listdir"
    /\ last.arg = RootDir
    /\ last.result # keys_list(USER_DIR_MAP[sessions[last.s].username])
    /\ Len(last.result) = 3
    /\ os_listdir_names(disk, RootDir)
           # {last.result[i] : i \in DOMAIN last.result}

\* The configuration names some user more than once.
RefDuplicateUsers(config) ==
    \E i, j \in DOMAIN config.users :
        i < j /\ config.users[i].username = config.users[j].username

(***************************************************************************)
(* C16.  While the configuration names a user twice, every start request   *)
(* that gets as far as setup_server ends with the error add_user raises    *)
(* for a registered name, having made no bind call; no server is ever      *)
(* created, no socket listens and no server thread runs.  (SpecConsole)    *)
(***************************************************************************)
C16_DuplicateUserFailsBeforeBind ==
    RefDuplicateUsers(config_file) =>
        /\ started = 0 /\ listening = {} /\ alive = {}
        /\ ftp_server = NoServer /\ ftp_thread = NoServer
        /\ last.op = "api_start" =>
               /\ last.status = "error"
               /\ last.message = AuthorizerError
               /\ last.binds = 0

\* A start request on a configuration naming a user twice has been answered,
\* the first entry of that user already written to the registry.
C16_Witness ==
    /\ RefDuplicateUsers(config_file)
    /\ last.op = "api_start"
    /\ last.message = AuthorizerError
    /\ DOMAIN USER_DIR_MAP # {}

(***************************************************************************)
(* C17.  Every round of a start request's loop is one of at most 5: it     *)
(* leaves the request in the loop only when it made a bind call that       *)
(* failed with EADDRINUSE and fewer than 5 rounds are done; a bind that    *)
(* succeeds ends the request with the server recorded, listening and its   *)
(* thread alive; every other error, and the fifth EADDRINUSE, ends the     *)
(* request with an error and starts no server.  (SpecConsole)              *)
(***************************************************************************)
C17_BoundedBindRetries ==
    [][\A w \in Workers :
          (workers[w].pc = "start_try" /\ workers'[w] # workers[w]) =>
              /\ workers[w].attempt < 5
              /\ workers[w].binds = workers[w].attempt
              /\ workers'[w].pc \in {"start_try", "idle"}
              /\ workers'[w].pc = "start_try" =>
                     /\ workers'[w].last_err = AddrInUse
                     /\ workers'[w].binds = workers[w].binds + 1
                     /\ workers'[w].attempt = workers[w].attempt + 1
                     /\ workers'[w].attempt < 5
                     /\ UNCHANGED <<ftp_server, ftp_thread, listening, alive,
                                    started, last>>
              /\ workers'[w].pc = "idle" =>
                     /\ last'.op = "api_start" /\ last'.w = w
                     /\ last'.binds <= 5
                     /\ last'.attempts = workers[w].attempt + 1
                     /\ IF last'.status = "ok"
                        THEN /\ last'.binds = last'.attempts
                             /\ started' = started + 1
                             /\ ftp_server' = started' /\ ftp_thread' = started'
                             /\ ftp_server' \in listening'
                             /\ ftp_thread' \in alive'
                        ELSE /\ UNCHANGED <<ftp_server, ftp_thread, listening,
                                            alive, started>>
                             /\ last'.message = AddrInUse => last'.binds = 5
                             /\ last'.message = OtherBindError =>
                                    last'.binds = last'.attempts]_vars

\* A start request has ended with the error of its fifth bind, all of them
\* refused because the address was in use.
C17_Witness ==
    /\ last.op = "api_start"
    /\ last.status = "error"
    /\ last.message = AddrInUse
    /\ last.binds = 5
    /\ ftp_server = NoServer

\* Worker w's start request is answered, or enters its retry loop, in this
\* step.
RefStartDecides(w) ==
    workers[w].pc = "start_wait" /\ workers'[w].pc # "start_wait"

\* A start request was refused as the server is running, and nothing else
\* was done for it.
RefRefusedRunning(w) ==
    /\ workers'[w].pc = "idle"
    /\ last'.op = "api_start" /\ last'.w = w
    /\ last'.message = "FTP server is already running"
    /\ last'.binds = 0
    /\ UNCHANGED <<USER_DIR_MAP, user_table, ftp_server, ftp_thread, listening,
                   alive, started>>

(***************************************************************************)
(* C18, as stated.  At most one server thread is alive, and a start        *)
(* request that arrived while the server thread was alive is answered      *)
(* "already running", with no bind and no change to the registry or to the *)
(* recorded server.  (SpecConsole)                                         *)
(***************************************************************************)
C18_StartArrivedWhileRunning ==
    [][/\ Cardinality(alive') <= 1
       /\ \A w \in Workers :
              (RefStartDecides(w) /\ workers[w].at_arrival) =>
                  RefRefusedRunning(w)]_vars

(***************************************************************************)
(* C18, amended.  At most one server thread is alive, under every          *)
(* interleaving of the start and stop requests, and a start request that   *)
(* finds the recorded server thread alive when it has taken _ftp_lock is   *)
(* answered "already running", with no bind and no change to the registry  *)
(* or to the recorded server.  (SpecConsole)                               *)
(***************************************************************************)
C18_OneServerThread ==
    [][/\ Cardinality(alive') <= 1
       /\ alive' \subseteq {ftp_thread'}
       /\ \A w \in Workers :
              (RefStartDecides(w) /\ thread_is_alive(ftp_thread, alive)) =>
                  RefRefusedRunning(w)]_vars

\* A start request has been refused as the server is running while another
\* worker's start request waits.
C18_Witness ==
    /\ last.op = "api_start"
    /\ last.message = "FTP server is already running"
    /\ alive = {ftp_thread}
    /\ \E w \in Workers : workers[w].pc = "start_wait"

\* C19: a start request that takes up its work while the stored configuration
\* names no user is answered with an error without going on to any bind, and
\* leaves the mount registry, the recorded server, the recorded server
\* thread and the listening sockets as they were.
C19_NoUsersStartRejected ==
    [][\A w \in Workers :
          (/\ workers[w].pc = "start_wait"
           /\ workers'[w].pc # "start_wait"
           /\ config_file.users = <<>>)
          => /\ last'.op = "api_start"
             /\ last'.w = w
             /\ last'.status = "error"
             /\ last'.binds = 0
             /\ workers'[w].pc = "idle"
             /\ UNCHANGED <<USER_DIR_MAP, ftp_server, ftp_thread, listening,
                            alive, started>>]_vars

\* C19 witness: "No users configured" is the answer to a start request made
\* after an earlier server filled the mount registry and its thread, still
\* recorded, has ended.
C19_Witness ==
    /\ last.op = "api_start"
    /\ last.message = "No users configured"
    /\ USER_DIR_MAP # <<>>
    /\ ftp_thread # NoServer
    /\ ftp_thread \notin alive
    /\ config_file.users = <<>>

\* A stop request of worker w decides in this step.
RefStopDecides(w) ==
    workers[w].pc = "stop_wait" /\ workers'[w].pc # "stop_wait"

\* A stop request of worker w comes back from its join in this step.
RefStopJoins(w) ==
    workers[w].pc = "stop_join" /\ workers'[w].pc # "stop_join"

\* What a status request would report in the state after this step.
RefRunningAfter == ftp_thread' # NoServer /\ ftp_thread' \in alive'

RefServing == listening \cap alive # {}

\* C21.  While an FTP server is serving sessions, no step changes the mount
\* registry or the table of the authorizer attached to the engine.
C21_FrozenWhileServing ==
    [][RefServing => UNCHANGED <<USER_DIR_MAP, user_table>>]_vars

\* C22.  Every response of GET /api/config has no password_hash in any user
\* entry, and has_password of each entry is true exactly when the stored
\* verifier of that entry is there and not empty.
C22_GetConfigHidesHashes ==
    last.op = "api_get_config"
    => /\ DOMAIN last.users = DOMAIN config_file.users
       /\ \A i \in DOMAIN last.users :
            /\ "password_hash" \notin DOMAIN last.users[i]
            /\ last.users[i].username = config_file.users[i].username
            /\ last.users[i].has_password
               = (/\ "password_hash" \in DOMAIN config_file.users[i]
                  /\ config_file.users[i].password_hash # <<>>)

\* C22 witness: a response for a stored document, written by an earlier
\* save, whose user has a verifier.
C22_Witness ==
    /\ last.op = "api_get_config"
    /\ last.users # <<>>
    /\ last.users[1].has_password
    /\ config_file.users[1].password_hash # <<>>

\* The new password entry i of a save request carries, <<>> for none.
RefNewPassword(body, i) == dict_get(body.users[i], "new_password", <<>>)

\* The verifier the document holds for username (its last entry of that
\* name), <<>> for none.
RefStoredVerifier(config, username) ==
    LET named == {i \in DOMAIN config.users :
                     config.users[i].username = username}
    IN  IF named = {} THEN <<>>
        ELSE dict_get(config.users[CHOOSE i \in named : \A j \in named : j <= i],
                      "password_hash", <<>>)

\* The names of the users of a document.
RefUsernames(config) ==
    {config.users[i].username : i \in DOMAIN config.users}

\* A save request has just been answered "Configuration saved".
RefSaved == last.op = "api_save_config" /\ last.status = "ok"

\* C23.  After a save made when no other save is under way, for every entry
\* of its request: with a new password P, the persisted verifier
\* authenticates P and is not P, and every other field of the persisted
\* entry is a field of the request's entry other than new_password; with no
\* new password and a username of the document persisted before, the persisted
\* verifier is the one persisted before, whatever password_hash the entry
\* supplied.
C23_SaveSettlesVerifiers ==
    RefSaved
    => /\ DOMAIN config_file.users = DOMAIN last.body.users
       /\ \A i \in DOMAIN last.body.users :
            LET entry    == last.body.users[i]
                stored   == config_file.users[i]
                P        == RefNewPassword(last.body, i)
            IN  /\ stored.username = entry.username
                /\ P # <<>> =>
                      /\ check_stored(stored.password_hash, P) = Authenticated
                      /\ stored.password_hash # P
                      /\ \A f \in DOMAIN stored \ {"password_hash"} :
                            /\ f # "new_password"
                            /\ f \in DOMAIN entry
                            /\ stored[f] = entry[f]
                /\ (P = <<>> /\ entry.username \in RefUsernames(last.previous))
                   => stored.password_hash
                      = RefStoredVerifier(last.previous, entry.username)

\* C23 witness: a save without a new password, whose entry supplied a
\* password_hash of its own, has left in place the verifier an earlier save
\* made of a new password.
C23_Witness ==
    /\ RefSaved
    /\ last.body.users # <<>>
    /\ RefNewPassword(last.body, 1) = <<>>
    /\ dict_get(last.body.users[1], "password_hash", <<>>) = SuppliedHash
    /\ check_stored(config_file.users[1].password_hash, <<"a">>) = Authenticated
    /\ config_file.users[1].password_hash
       = RefStoredVerifier(last.previous, "u1")

\* C24.  After a save, every entry of its request that has no new password
\* and whose username the document persisted before did not hold is
\* persisted with an empty verifier, and a server started with the persisted
\* document refuses that user with the "not configured" reason for every
\* password.
C24_NewUserHasNoVerifier ==
    RefSaved
    => \A i \in DOMAIN last.body.users :
          (/\ RefNewPassword(last.body, i) = <<>>
           /\ last.body.users[i].username \notin RefUsernames(last.previous))
          => /\ config_file.users[i].password_hash = <<>>
             /\ \A P \in Passwords :
                   validate_authentication(
                       setup_users(config_file.users, <<>>, <<>>).table,
                       last.body.users[i].username, P) = NotConfiguredMsg

C30_NoPasswordSaveKeepsVerifier ==
    [][\A w \in Workers :
          (workers[w].pc = "save_write" /\ workers'[w].pc = "idle")
          => \A i \in DOMAIN workers[w].body.users :
                LET username == workers[w].body.users[i].username
                    stored   == RefStoredVerifier(config_file', username)
                    P        == RefNewPassword(workers[w].body, i)
                IN  /\ P # <<>> => check_stored(stored, P) = Authenticated
                    /\ (/\ P = <<>>
                        /\ RefSaved
                        /\ last.w # w)
                       => \A j \in DOMAIN last.body.users :
                             (/\ last.body.users[j].username = username
                              /\ RefNewPassword(last.body, j) # <<>>)
                             => check_stored(stored,
                                             RefNewPassword(last.body, j))
                                = Authenticated]_vars

\* A round of worker w's start request runs setup_server in this step.
RefBootstraps(w) == workers[w].pc = "start_try" /\ workers'[w] # workers[w]

\* C26.  In every round of a bootstrap the steps come in the order registry,
\* directories, users, bind, attach: a round that ends before its bind has
\* succeeded has attached no authorizer to the engine, and a round that
\* ends at the registration of a user leaves a registry that holds every
\* user of the configuration with its mount map.
C26_BootstrapOrder ==
    [][\A w \in Workers :
          RefBootstraps(w)
          => /\ listening' = listening => user_table' = user_table
             /\ (last'.op = "api_start" /\ last'.message = AuthorizerError)
                => /\ DOMAIN USER_DIR_MAP' = RefUsernames(workers[w].config)
                   /\ \A i \in DOMAIN workers[w].config.users :
                         \E j \in DOMAIN workers[w].config.users :
                            /\ workers[w].config.users[j].username
                               = workers[w].config.users[i].username
                            /\ USER_DIR_MAP'[workers[w].config.users[i].username]
                               = workers[w].config.users[j].directories]_vars

\* cwd is "/" or a virtual path whose first name is a mount name registered
\* for username.
RefVirtualCwd(cwd, username) ==
    \/ cwd = RootDir
    \/ /\ Len(cwd) >= 2
       /\ cwd[1] = ""
       /\ cwd[2] \in Keys(registry_get(USER_DIR_MAP, username))

\* C27.  The current directory of every session is "/" or a virtual path
\* whose first name is one of the mount names registered for
\* the session's user, and after a chdir to a path that lies in no mount of
\* the user it is "/".
C27_CwdIsVirtual ==
    /\ \A s \in SessionIds :
          sessions[s].open
          => RefVirtualCwd(sessions[s].cwd, sessions[s].username)
    /\ (/\ last.op = "chdir"
        /\ \A base \in RefMountRoots(sessions[last.s].username) :
              ~RefInside(normpath(last.arg), base))
       => sessions[last.s].cwd = RootDir

\* C27 witness: a session whose current directory was in a mount has made
\* a chdir to an absolute real path outside every mount of its user, a path
\* that is no virtual path of that user.
C27_Witness ==
    /\ last.op = "chdir"
    /\ isabs(last.arg)
    /\ normpath(last.arg) # RootDir
    /\ ~RefVirtualCwd(normpath(last.arg), sessions[last.s].username)
    /\ \A base \in RefMountRoots(sessions[last.s].username) :
          ~RefInside(normpath(last.arg), base)
    /\ sessions[last.s].cwd = RootDir

\* The mount set the registry holds for username now, each real path
\* normalized as the translation and has_perm normalize it.
RefRegistryMounts(username) ==
    LET m == registry_get(USER_DIR_MAP, username)
    IN  [i \in DOMAIN m |-> <<m[i][1], normpath(m[i][2])>>]

\* C28.  The mount set every session translates paths with is the registry's
\* entry for the session's user as it is now, which is the mount set
\* has_perm consults for that user.
C28_SessionSeesRegistry ==
    \A s \in SessionIds :
        sessions[s].open
        => sessions[s].dir_map = RefRegistryMounts(sessions[s].username)

\* The calls that only ask.
RefQueries ==
    {"ftp2fs", "fs2ftp", "validpath", "has_perm", "validate_authentication"}

\* C29.  A call that only asks (ftp2fs, fs2ftp, validpath, has_perm,
\* validate_authentication, whatever it answers) and an rmdir refused as
\* that of a mount root leave the mount registry, the user table and the
\* current directory and mount set of every session as they were; the
\* current directory of a session changes only in a chdir of that session,
\* and the mount set of an open session never.
C29_QueriesChangeNothing ==
    [][/\ (last' # last /\ last'.op \in RefQueries)
          => UNCHANGED <<USER_DIR_MAP, user_table, sessions>>
       /\ (last' # last /\ last'.op = "rmdir"
           /\ last'.raised = MountPointError)
          => UNCHANGED <<USER_DIR_MAP, user_table, sessions>>
       /\ \A s \in DOMAIN sessions :
             /\ sessions'[s].cwd # sessions[s].cwd
                => (last'.op = "chdir" /\ last'.s = s)
             /\ sessions[s].open
                => sessions'[s].dir_map = sessions[s].dir_map]_vars

\* C29 witness: with two sessions open, each in a directory of its own
\* other than "/", one of them has just been refused the rmdir of a mount
\* root.
C29_Witness ==
    /\ last.op = "rmdir"
    /\ last.raised = MountPointError
    /\ \A s \in DOMAIN sessions :
          sessions[s].open /\ sessions[s].cwd # RootDir
    /\ \E s, t \in DOMAIN sessions : sessions[s].cwd # sessions[t].cwd

====
